---- MODULE Spec2Model ----
(***************************************************************************)
(* A model of the incremental compiler and hot-reload engine of            *)
(* src/src/compiler.ts (class Compiler).                                   *)
(*                                                                         *)
(* A path is the sequence of its lexical tokens: "/w/src/a.ts" is          *)
(* <<"w", "src", "a", ".ts">>.  A file content is the sequence of the      *)
(* character codes of its text.  Every Map of the class is a function      *)
(* whose DOMAIN is the set of keys the Map holds.                          *)
(***************************************************************************)
EXTENDS Integers, Sequences, FiniteSets, TLC

(***************************************************************************)
(* Bounds of the model.                                                    *)
(***************************************************************************)
MaxEdits == 3
MaxResets == 1
MaxPlugins == 3
MaxResolves == 2

(***************************************************************************)
(* Paths.                                                                  *)
(***************************************************************************)
cwd == "w"
libraryPath == "node_modules"
A == <<"w", "src", "a", ".ts">>
B == <<"w", "src", "b", ".ts">>
D == <<"w", "src", "d", ".d", ".ts">>
X == <<"w", "src", "transformer.x", ".ts">>
L == <<"w", "node_modules", "@travetto/x", "src", "l", ".ts">>
T == <<"w", "test", "t", ".ts">>

\* The file trees a run may have: the paths that can ever exist in it.
\* The developer works on one file; the entry module A and the library
\* file L stay as first written.
Projects == {{B}, {D}, {X}, {T}, {A, L}}
AllPaths == UNION Projects
Editable(p) == p \notin {A, L}

\* The order in which a directory scan (bulkFindSync) reports files.
ScanList == <<L, A, B, D, X>>

Includes(p, tok) == \E i \in 1..Len(p) : p[i] = tok

toJsName(name) ==
  IF Len(name) > 0 /\ name[Len(name)] = ".ts"
  THEN [name EXCEPT ![Len(name)] = ".js"]
  ELSE name

(***************************************************************************)
(* File contents, the translator and the host's execution of a text.      *)
(***************************************************************************)
SrcOne == <<120, 61, 49>>                         \* "x=1"
SrcTwo == <<120, 61, 50>>                         \* "x=2"
SrcBroken == <<120, 61>>                          \* "x="       a syntax error
SrcThrow == <<116, 104, 114, 111, 119, 32, 49>>   \* "throw 1"  throws when run
Sources == {SrcOne, SrcTwo, SrcBroken, SrcThrow}

\* stringHash (package string-hash): hash = 5381; for i = length-1 .. 0:
\* hash = (hash * 33) ^ charCode(i); return hash >>> 0.  A 32 bit word is
\* kept as two 16 bit halves <<hi, lo>>.
RECURSIVE xorBits(_, _, _)
xorBits(a, b, n) ==
  IF n = 0 THEN 0
  ELSE (((a % 2) + (b % 2)) % 2) + 2 * xorBits(a \div 2, b \div 2, n - 1)

hashStep(h, c) ==
  LET lo33 == h[2] * 33
      lo == lo33 % 65536
      hi == ((h[1] * 33) + (lo33 \div 65536)) % 65536
  IN <<hi, (lo - (lo % 256)) + xorBits(lo % 256, c, 8)>>

RECURSIVE hashFrom(_, _, _)
hashFrom(str, i, h) ==
  IF i = 0 THEN h ELSE hashFrom(str, i - 1, hashStep(h, str[i]))

stringHash(str) == hashFrom(str, Len(str), <<0, 5381>>)

\* The hashes of the contents of the model, computed once.
HashTable == [c \in Sources |-> stringHash(c)]
hashOf(content) == HashTable[content]

\* ts.transpileModule: the output text and the diagnostics of a content.
outputText(input) == [kind |-> "js", src |-> input]
diagnostics(input) == IF input = SrcBroken THEN <<"Expression expected.">> ELSE << >>
transpile(input, fileName) ==
  [outputText |-> outputText(input), diagnostics |-> diagnostics(input)]

emptyRequire == [kind |-> "stub", src |-> << >>]
Undefined == [kind |-> "undefined", src |-> << >>]

\* Module.prototype._compile: whether running a text throws, and the
\* exports object it leaves otherwise.
Throws(text) == text.kind = "js" /\ text.src = SrcThrow
Exports(text) == [kind |-> "exports", text |-> text]
EmptyObject == [kind |-> "object", text |-> Undefined]
Operations == {"get", "set", "has", "ownKeys", "apply"}
EmptyResult == [kind |-> "empty"]

\* RetargettingHandler (./proxy): an indirection forwards every operation
\* to its target slot; on the empty sentinel the result is empty.
forward(target, operation) ==
  IF target.kind = "null" THEN EmptyResult
  ELSE [kind |-> "result", of |-> operation, on |-> target]

NullTarget == [kind |-> "null", text |-> Undefined]

(***************************************************************************)
(* Maps.                                                                   *)
(***************************************************************************)
EmptyMap == [x \in {} |-> 0]
Has(m, k) == k \in DOMAIN m
Put(m, k, v) == [x \in DOMAIN m \cup {k} |-> IF x = k THEN v ELSE m[x]]
Del(m, k) == [x \in DOMAIN m \ {k} |-> m[x]]

(***************************************************************************)
(* The state.  prod, watch: AppEnv.  disk: the file system.  pending: the  *)
(* file changes the watcher has not reported yet, oldest first.  The       *)
(* others are the static fields of Compiler; cache is require.cache,       *)
(* reIndex the lastIndex of the global regular expression /\.d\.ts$/g,     *)
(* nextProxy the number of indirections made so far, handlers the target   *)
(* of each indirection's RetargettingHandler (modules maps a path to its   *)
(* indirection).  budget counts the changes the developer still makes,     *)
(* resets the calls of resetFiles.                                         *)
(*                                                                         *)
(* Ghosts: last records the latest call with what it did; refs the value   *)
(* each path's first load returned since the last reset, first the value   *)
(* its first load ever returned; discovered the paths a load compiled      *)
(* because they had no compiled text; compiled the content each path's     *)
(* latest translation read; armed the paths loaded and then recompiled by  *)
(* a 'changed' event, not loaded since.                                    *)
(*                                                                         *)
(* plugins: the descriptor objects the transformer files export, in the    *)
(* order of discovery; transformers: Compiler.transformers; manager: the   *)
(* transformers field of a TransformerManager.  Ghosts: declared, the      *)
(* descriptors as their files wrote them; resolves, the direct calls of    *)
(* resolveTransformers and TransformerManager.init so far.                 *)
(***************************************************************************)
VARIABLES prod, watch, tree, disk, pending, budget, resets,
          options, files, rootFiles, contents, hashes, snaphost, modules,
          handlers, cache, fileWatchers, closed, reIndex, nextProxy,
          last, refs, first, discovered, compiled, armed,
          plugins, transformers, manager, declared, resolves

vars == <<prod, watch, tree, disk, pending, budget, resets,
          options, files, rootFiles, contents, hashes, snaphost, modules,
          handlers, cache, fileWatchers, closed, reIndex, nextProxy,
          last, refs, first, discovered, compiled, armed,
          plugins, transformers, manager, declared, resolves>>

\* The running call's view of the state, with what the call did so far:
\* built lists the files handed to the translator, exec the texts run, emit
\* the public events; threw: an exception escapes; ret, mod, out: the value
\* returned, the module's exports, the value the load interceptor returns;
\* skip: the watch event was discarded.
Cur ==
  [prod |-> prod, watch |-> watch, disk |-> disk,
   options |-> options, files |-> files, rootFiles |-> rootFiles,
   contents |-> contents, hashes |-> hashes, snaphost |-> snaphost,
   modules |-> modules, handlers |-> handlers, cache |-> cache,
   fileWatchers |-> fileWatchers,
   closed |-> closed, reIndex |-> reIndex, nextProxy |-> nextProxy,
   plugins |-> plugins, transformers |-> transformers,
   built |-> << >>, exec |-> << >>, emit |-> << >>,
   threw |-> FALSE, ret |-> FALSE, skip |-> FALSE,
   mod |-> EmptyObject, out |-> EmptyObject]

NoRoot == [defined |-> FALSE, items |-> << >>]

(***************************************************************************)
(* invalidWorkingSetFile.  The first pattern carries the g flag: test()    *)
(* starts at lastIndex and moves it.                                       *)
(***************************************************************************)
DEV_PACKAGES == {"@travetto/dev"}
TransformerSegments == {"transformer", "transformer.x"}

\* /\.d\.ts$/g .test(name) from lastIndex at: the match would start at
\* token Len(name) - 1 (index Len(name) - 2 counted from 0).
dtsTest(at, name) ==
  LET n == Len(name)
      hit == n >= 2 /\ name[n - 1] = ".d" /\ name[n] = ".ts" /\ at <= n - 2
  IN [match |-> hit, lastIndex |-> IF hit THEN n ELSE 0]

\* transformerPattern /^.*\/transformer.*[.]ts$/
transformerTest(name) ==
  /\ Len(name) >= 2
  /\ name[Len(name)] = ".ts"
  /\ \E i \in 2..(Len(name) - 1) : name[i] \in TransformerSegments

\* devDependencyFiles: node_modules/(<dev package>)/
devDependencyTest(name) ==
  \E i \in 1..(Len(name) - 2) : name[i] = libraryPath /\ name[i + 1] \in DEV_PACKAGES

invalidWorkingSetFile(s, name) ==
  LET t == dtsTest(s.reIndex, name)
      s1 == [s EXCEPT !.reIndex = t.lastIndex]
  IN IF t.match THEN [s1 EXCEPT !.ret = TRUE]
     ELSE [s1 EXCEPT !.ret = transformerTest(name) \/ devDependencyTest(name)]

(***************************************************************************)
(* handleLoadError(p, e): "true", "false" or "throw".                      *)
(***************************************************************************)
\* A variant that never asks for the stub.
handleLoadErrorNoStub(isProd, hasError) ==
  IF isProd /\ hasError THEN "throw" ELSE "false"

handleLoadError(isProd, hasError) ==
  IF ~isProd THEN "true"
  ELSE IF hasError THEN "throw" ELSE "false"

logErrors(fileName, diags) == Len(diags) # 0

(***************************************************************************)
(* unload and markForReload.                                               *)
(***************************************************************************)
\* Variants of unload: one that also drops the module entry, one that
\* leaves the indirection's target alone.
unloadDropsEntry(s, fileName) ==
  [s EXCEPT
     !.snaphost = Del(@, fileName),
     !.cache = Del(@, fileName),
     !.hashes = Del(@, fileName),
     !.modules = Del(@, fileName)]

unloadKeepsTarget(s, fileName) ==
  [s EXCEPT
     !.snaphost = Del(@, fileName),
     !.cache = Del(@, fileName),
     !.hashes = Del(@, fileName)]

unload(s, fileName) ==
  [s EXCEPT
     !.snaphost = Del(@, fileName),
     !.cache = Del(@, fileName),
     !.hashes = Del(@, fileName),
     !.handlers = IF Has(s.modules, fileName)
                  THEN [@ EXCEPT ![s.modules[fileName].id] = NullTarget]
                  ELSE @]

\* A variant of markForReload that unloads nothing.
markForReloadNothing(s, fileName) == s

\* A variant that runs the new text at once and retargets the indirection.
markForReloadAuto(s, fileName) ==
  [unload(s, fileName) EXCEPT
     !.exec = Append(@, s.contents[toJsName(fileName)]),
     !.handlers = IF Has(s.modules, fileName)
                  THEN [@ EXCEPT ![s.modules[fileName].id] =
                                    Exports(s.contents[toJsName(fileName)])]
                  ELSE @]

markForReload(s, fileName) == unload(s, fileName)

(***************************************************************************)
(* emitFile.  ts.sys.readFile gives undefined for a missing file, which    *)
(* stringHash and the translator both dereference: the call throws.        *)
(***************************************************************************)
\* The test of lines 223-230: the content hashes to the recorded hash.
\* A variant answers from the presence of a recorded hash alone.
unchangedIfHashed(s, fileName, content) ==
  s.watch /\ Has(s.hashes, fileName)

unchanged(s, fileName, content) ==
  /\ s.watch
  /\ Has(s.hashes, fileName)
  /\ hashOf(content) = s.hashes[fileName]

\* Lines 232-243: the text to store for the content.
outputOf(isProd, content, fileName) ==
  LET res == transpile(content, fileName)
  IN IF logErrors(fileName, res.diagnostics) /\ handleLoadError(isProd, FALSE) = "true"
     THEN emptyRequire
     ELSE res.outputText

\* Lines 245-251: after the hash is recorded, a file with a version above
\* 0 is marked for reload.  A path without an entry has no version to read.
reloadIfLoaded(s, fileName) ==
  IF ~Has(s.files, fileName) THEN [s EXCEPT !.threw = TRUE]
  ELSE IF s.files[fileName] > 0
    THEN [markForReload(s, fileName) EXCEPT !.ret = TRUE]
    ELSE [s EXCEPT !.ret = TRUE]

emitFile(s, fileName) ==
  IF ~Has(s.disk, fileName) THEN [s EXCEPT !.threw = TRUE]
  ELSE IF unchanged(s, fileName, s.disk[fileName]) THEN [s EXCEPT !.ret = FALSE]
  ELSE IF ~s.watch
    THEN [s EXCEPT !.built = Append(@, fileName),
                   !.contents = Put(@, toJsName(fileName),
                                    outputOf(s.prod, s.disk[fileName], fileName)),
                   !.ret = TRUE]
    ELSE reloadIfLoaded(
           [s EXCEPT !.built = Append(@, fileName),
                     !.contents = Put(@, toJsName(fileName),
                                      outputOf(s.prod, s.disk[fileName], fileName)),
                     !.hashes = Put(@, fileName, hashOf(s.disk[fileName]))],
           fileName)

(***************************************************************************)
(* requireHandler: the handler of the .ts suffix.  mod is the exports the  *)
(* module record holds once its text has run.                              *)
(***************************************************************************)
topLevel(tsf) == tsf[2]

\* A variant that leaves the root set alone.
pushRootNothing(s, file) == s

pushRoot(s, file) ==
  [s EXCEPT !.rootFiles.items = Append(@, file)]

\* Lines 151-164: a path without compiled text is added to its watcher
\* and to the root set, given version 0 and compiled.
watcherAdd(s, tsf) ==
  IF s.watch /\ Has(s.fileWatchers, topLevel(tsf))
  THEN [s EXCEPT !.fileWatchers[topLevel(tsf)].extra = @ \cup {tsf}]
  ELSE s

pickUpMissed(s, tsf) ==
  IF ~Has(s.contents, toJsName(tsf))
  THEN emitFile([pushRoot(watcherAdd(s, tsf), tsf) EXCEPT !.files = Put(@, tsf, 0)], tsf)
  ELSE s

\* Lines 166-182: the stored text is run; when it throws, production mode
\* rethrows and development mode stores the stub and runs it.
contentOf(s, jsf) == IF Has(s.contents, jsf) THEN s.contents[jsf] ELSE Undefined

\* A variant whose catch block stores the stub and does not run it.
compileModuleNoRetry(s, tsf, isNew) ==
  IF s.threw THEN s
  ELSE IF ~Throws(contentOf(s, toJsName(tsf)))
    THEN [s EXCEPT !.exec = Append(@, contentOf(s, toJsName(tsf))),
                   !.mod = Exports(contentOf(s, toJsName(tsf))),
                   !.emit = IF isNew THEN Append(@, <<"required-after", tsf>>) ELSE @]
  ELSE IF handleLoadError(s.prod, TRUE) = "throw"
    THEN [s EXCEPT !.exec = Append(@, contentOf(s, toJsName(tsf))),
                   !.threw = TRUE]
  ELSE [s EXCEPT !.contents = Put(@, toJsName(tsf), emptyRequire),
                 !.exec = Append(@, contentOf(s, toJsName(tsf)))]

compileModule(s, tsf, isNew) ==
  IF s.threw THEN s
  ELSE IF ~Throws(contentOf(s, toJsName(tsf)))
    THEN [s EXCEPT !.exec = Append(@, contentOf(s, toJsName(tsf))),
                   !.mod = Exports(contentOf(s, toJsName(tsf))),
                   !.emit = IF isNew THEN Append(@, <<"required-after", tsf>>) ELSE @]
  ELSE IF handleLoadError(s.prod, TRUE) = "throw"
    THEN [s EXCEPT !.exec = Append(@, contentOf(s, toJsName(tsf))),
                   !.threw = TRUE]
  ELSE [s EXCEPT !.contents = Put(@, toJsName(tsf), emptyRequire),
                 !.exec = Append(Append(@, contentOf(s, toJsName(tsf))), emptyRequire),
                 !.mod = Exports(emptyRequire)]

requireHandler(s, tsf) ==
  compileModule(pickUpMissed(s, tsf), tsf, ~Has(s.contents, toJsName(tsf)))

(***************************************************************************)
(* originalLoader is the host's Module._load: it resolves the request      *)
(* (which throws for a missing file), answers from require.cache, or runs  *)
(* the suffix handler on a new module record, which it caches, and drops   *)
(* again when the handler throws.                                          *)
(***************************************************************************)
cached(r, p) ==
  IF r.threw THEN [r EXCEPT !.cache = Del(@, p)]
  ELSE [r EXCEPT !.cache = Put(@, p, r.mod)]

originalLoader(s, p) ==
  IF ~Has(s.disk, p) THEN [s EXCEPT !.threw = TRUE]
  ELSE IF Has(s.cache, p) THEN [s EXCEPT !.mod = s.cache[p]]
  ELSE cached(requireHandler(s, p), p)

\* Lines 114-120: the catch block resolves the request again, which throws
\* for a missing file, and applies handleLoadError.
caught(r, p) ==
  IF ~r.threw THEN r
  ELSE IF ~Has(r.disk, p) THEN r
  ELSE IF handleLoadError(r.prod, TRUE) = "throw" THEN r
  ELSE [r EXCEPT !.threw = FALSE, !.mod = EmptyObject]

\* Lines 124-138.
newProxy(s) == [kind |-> "proxy", id |-> s.nextProxy + 1]

\* A variant that wraps every load in a new indirection.
proxiedAlwaysNew(c, p) ==
  IF c.threw THEN c
  ELSE IF c.watch /\ Includes(p, cwd) /\ ~Includes(p, libraryPath)
    THEN [c EXCEPT !.nextProxy = @ + 1,
                   !.handlers = Put(@, newProxy(c).id, c.mod),
                   !.modules = Put(@, p, newProxy(c)),
                   !.out = newProxy(c)]
  ELSE [c EXCEPT !.out = c.mod]

proxied(c, p) ==
  IF c.threw THEN c
  ELSE IF c.watch /\ Includes(p, cwd) /\ ~Includes(p, libraryPath)
    THEN IF ~Has(c.modules, p)
         THEN [c EXCEPT !.nextProxy = @ + 1,
                        !.handlers = Put(@, newProxy(c).id, c.mod),
                        !.modules = Put(@, p, newProxy(c)),
                        !.out = newProxy(c)]
         ELSE [c EXCEPT !.handlers[c.modules[p].id] = c.mod,
                        !.out = c.modules[p]]
  ELSE [c EXCEPT !.out = c.mod]

moduleLoadHandler(s, p) == proxied(caught(originalLoader(s, p), p), p)

(***************************************************************************)
(* watcherListener.                                                        *)
(***************************************************************************)
emitIf(e, event, file) ==
  IF ~e.threw /\ e.ret THEN [e EXCEPT !.emit = Append(@, <<event, file>>)] ELSE e

\* Lines 260-284, for a file the filter let pass.
listen(g, event, file) ==
  IF event = "added"
    THEN emitIf(emitFile([pushRoot(g, file) EXCEPT !.files = Put(@, file, 1)], file),
                event, file)
  ELSE IF event = "changed"
    THEN IF Has(g.files, file)
         THEN emitIf(emitFile([g EXCEPT !.snaphost = Del(@, file),
                                        !.files[file] = @ + 1], file),
                     "changed", file)
         ELSE emitIf(emitFile(pushRoot([g EXCEPT !.files = Put(@, file, 1)], file), file),
                     "added", file)
  ELSE IF event = "removed"
    THEN [unload(g, file) EXCEPT !.emit = Append(@, <<event, file>>)]
  ELSE g

filtered(f, event, file) ==
  IF f.ret THEN [f EXCEPT !.ret = FALSE, !.skip = TRUE]
  ELSE listen(f, event, file)

watcherListener(s, event, file) ==
  filtered(invalidWorkingSetFile(s, file), event, file)

(***************************************************************************)
(* getSnapshot.  A snapshot is kept as whether it is defined: nothing      *)
(* here reads its text.                                                    *)
(***************************************************************************)
getSnapshot(s, fileName) ==
  IF Has(s.snaphost, fileName) THEN s
  ELSE [s EXCEPT !.snaphost =
          Put(@, fileName,
              [defined |-> Has(s.disk, fileName)])]

(***************************************************************************)
(* resolveTransformers and TransformerManager.init.  A descriptor is       *)
(* [key, name, phase, priority, transformer]; priority is << >> while      *)
(* undefined and <<n>> once it is n; name is "" while unset.  Both         *)
(* methods write priority and name into the descriptor objects, which      *)
(* the host keeps for the next call.                                       *)
(***************************************************************************)
Phases == {"before", "after"}

\* Lines 94-104: the loop over the descriptors, counter i starting at 2.
RECURSIVE setPriorities(_, _, _)
setPriorities(items, k, i) ==
  IF k > Len(items) THEN items
  ELSE IF items[k].priority = << >>
    THEN setPriorities([items EXCEPT ![k].priority = <<i + 1>>,
                                     ![k].name = IF @ = "" THEN items[k].key ELSE @],
                       k + 1, i + 1)
    ELSE setPriorities([items EXCEPT ![k].name = IF @ = "" THEN items[k].key ELSE @],
                       k + 1, i)

\* transformers[item.phase].push(item)
RECURSIVE pushed(_, _, _)
pushed(items, k, phase) ==
  IF k > Len(items) THEN << >>
  ELSE IF items[k].phase = phase
    THEN <<items[k]>> \o pushed(items, k + 1, phase)
    ELSE pushed(items, k + 1, phase)

\* (a, b) => a.priority - b.priority
compare(a, b) == a.priority[1] - b.priority[1]

\* Array.prototype.sort on a short array: an element moves left past the
\* elements that compare greater.  A variant moves it past the equal ones
\* too.
RECURSIVE insertPastEqual(_, _)
insertPastEqual(sorted, x) ==
  IF sorted = << >> THEN <<x>>
  ELSE IF compare(sorted[Len(sorted)], x) >= 0
    THEN Append(insertPastEqual(SubSeq(sorted, 1, Len(sorted) - 1), x), sorted[Len(sorted)])
    ELSE Append(sorted, x)

RECURSIVE insert(_, _)
insert(sorted, x) ==
  IF sorted = << >> THEN <<x>>
  ELSE IF compare(sorted[Len(sorted)], x) > 0
    THEN Append(insert(SubSeq(sorted, 1, Len(sorted) - 1), x), sorted[Len(sorted)])
    ELSE Append(sorted, x)

RECURSIVE sort(_, _)
sort(list, n) ==
  IF n = 0 THEN << >> ELSE insert(sort(list, n - 1), list[n])

\* Lines 105-107: every phase's list sorted and mapped to the transformers.
sortedPhase(list) ==
  [k \in 1..Len(list) |-> sort(list, Len(list))[k].transformer]

phasesOf(items) == {items[k].phase : k \in 1..Len(items)}

phaseMap(items) ==
  [phase \in phasesOf(items) |-> sortedPhase(pushed(items, 1, phase))]

resolveTransformers(s) ==
  [s EXCEPT !.plugins = setPriorities(s.plugins, 1, 2),
            !.transformers = phaseMap(setPriorities(s.plugins, 1, 2))]

\* TransformerManager.init: the same steps on the same descriptor objects;
\* the result goes to the instance's field.
managerInit(items) ==
  [plugins |-> setPriorities(items, 1, 2),
   transformers |-> phaseMap(setPriorities(items, 1, 2))]

(***************************************************************************)
(* initFiles, resetFiles, init.                                            *)
(***************************************************************************)
\* bulkFindSync([/[^\/]+\/src\/.*[.]ts$/], cwd/node_modules/@travetto)
inLibraryScan(p) ==
  /\ Len(p) >= 5
  /\ p[1] = cwd /\ p[2] = libraryPath /\ p[3] \in {"@travetto/x", "@travetto/dev"}
  /\ p[4] = "src" /\ p[Len(p)] = ".ts"

\* bulkFindSync([/.ts/], cwd/src)
inSourceScan(p) ==
  Len(p) >= 3 /\ p[1] = cwd /\ p[2] = "src" /\ p[Len(p)] = ".ts"

\* The scan with its filter: the files found, in order, that
\* invalidWorkingSetFile does not reject.
filterOne(t, p) ==
  IF t.ret THEN [t EXCEPT !.ret = FALSE]
  ELSE [t EXCEPT !.rootFiles.items = Append(@, p), !.ret = FALSE]

RECURSIVE scanFrom(_, _)
scanFrom(s, i) ==
  IF i > Len(ScanList) THEN s
  ELSE IF Has(s.disk, ScanList[i])
          /\ (inLibraryScan(ScanList[i]) \/ inSourceScan(ScanList[i]))
    THEN scanFrom(filterOne(invalidWorkingSetFile(s, ScanList[i]), ScanList[i]), i + 1)
    ELSE scanFrom(s, i + 1)

\* The priming loop over rootFiles.
RECURSIVE primeFrom(_, _)
primeFrom(s, i) ==
  IF s.threw \/ i > Len(s.rootFiles.items) THEN s
  ELSE LET fileName == s.rootFiles.items[i]
       IN primeFrom(emitFile([s EXCEPT !.files = Put(@, fileName, 0)], fileName), i + 1)

\* watchFiles: one watcher, on src.
buildWatcher(s) == [id |-> Cardinality(s.closed) + 1, extra |-> {}]

watchFiles(s) == [x \in {"src"} |-> buildWatcher(s)]

startWatching(primed) ==
  IF primed.threw THEN primed
  ELSE IF primed.watch
    THEN [primed EXCEPT !.fileWatchers = watchFiles(primed), !.ret = FALSE]
    ELSE [primed EXCEPT !.ret = FALSE]

initFiles(s) ==
  IF s.rootFiles.defined THEN s
  ELSE startWatching(
         primeFrom(scanFrom([s EXCEPT !.rootFiles = [defined |-> TRUE, items |-> << >>]],
                            1), 1))

closeWatchers(s) ==
  IF s.watch
  THEN [s EXCEPT !.closed = @ \cup {s.fileWatchers[k].id : k \in DOMAIN s.fileWatchers},
                 !.fileWatchers = EmptyMap]
  ELSE s

\* A variant that leaves the hashes in place.
resetFilesKeepsHashes(s) ==
  initFiles([closeWatchers(s) EXCEPT !.contents = EmptyMap,
                                     !.modules = EmptyMap,
                                     !.files = EmptyMap,
                                     !.snaphost = EmptyMap,
                                     !.rootFiles = NoRoot])

resetFiles(s) ==
  initFiles([closeWatchers(s) EXCEPT !.contents = EmptyMap,
                                     !.modules = EmptyMap,
                                     !.files = EmptyMap,
                                     !.hashes = EmptyMap,
                                     !.snaphost = EmptyMap,
                                     !.rootFiles = NoRoot])

init(s) == initFiles(resolveTransformers([s EXCEPT !.options = TRUE]))

(***************************************************************************)
(* The initial state: the class is loaded, init has not run.               *)
(***************************************************************************)
NoCall ==
  [op |-> "none", path |-> << >>, event |-> "", threw |-> FALSE, ret |-> FALSE,
   skip |-> FALSE, out |-> EmptyObject, trans |-> 0, exec |-> << >>,
   emit |-> << >>, again |-> FALSE, same |-> FALSE, wasArmed |-> FALSE,
   wasKnown |-> FALSE, wasDiscovered |-> FALSE, hadText |-> FALSE,
   grew |-> 0, kept |-> TRUE, wasFirst |-> FALSE, frame |-> TRUE,
   bump |-> 0, still |-> TRUE, shut |-> TRUE]

Start ==
  /\ \E present \in SUBSET tree :
        /\ disk \in [present -> Sources]
        /\ \A p \in tree : ~Editable(p) => p \in present /\ disk[p] = SrcOne
  /\ pending = << >>
  /\ resets = 0
  /\ options = FALSE
  /\ files = EmptyMap
  /\ rootFiles = NoRoot
  /\ contents = EmptyMap
  /\ hashes = EmptyMap
  /\ snaphost = EmptyMap
  /\ modules = EmptyMap
  /\ handlers = EmptyMap
  /\ cache = EmptyMap
  /\ fileWatchers = EmptyMap
  /\ closed = {}
  /\ reIndex = 0
  /\ nextProxy = 0
  /\ last = NoCall
  /\ refs = EmptyMap
  /\ first = EmptyMap
  /\ discovered = {}
  /\ compiled = EmptyMap
  /\ armed = {}
  /\ transformers = EmptyMap
  /\ manager = EmptyMap
  /\ resolves = 0

\* bulkRequire([transformerPattern], cwd): the descriptors the transformer
\* files of the tree export.
Descriptor(key, phase, priority) ==
  [key |-> key, name |-> "", phase |-> phase, priority |-> priority,
   transformer |-> key]

bulkRequire(d) ==
  IF Has(d, X)
  THEN <<Descriptor("a", "before", << >>), Descriptor("b", "before", <<1>>)>>
  ELSE << >>

Init ==
  /\ prod \in BOOLEAN
  /\ watch \in BOOLEAN
  /\ tree \in Projects
  /\ budget = MaxEdits
  /\ Start
  /\ plugins = bulkRequire(disk)
  /\ declared = plugins

(***************************************************************************)
(* A call ends: the fields take the values the call left, the ghosts       *)
(* record it.                                                              *)
(***************************************************************************)
\* The times p is in the root set.
Count(root, p) == Cardinality({i \in 1..Len(root.items) : root.items[i] = p})

RECURSIVE recordBuilt(_, _, _)
recordBuilt(m, built, i) ==
  IF i > Len(built) THEN m
  ELSE recordBuilt(Put(m, built[i], disk[built[i]]), built, i + 1)

\* What a call may do to the indirections and to the host's module cache:
\* only a load of p gives a target to p's indirection, any other call at
\* most clears the target of the path it is about; a watch event makes
\* and drops no module entry and at most evicts the cache entry of its
\* path.
Frame(r, op, p) ==
  /\ \A id \in DOMAIN r.handlers :
        \/ id \in DOMAIN handlers /\ r.handlers[id] = handlers[id]
        \/ op = "load" /\ Has(r.modules, p) /\ r.modules[p].id = id
        \/ /\ op # "load" /\ r.handlers[id] = NullTarget
           /\ Has(modules, p) /\ modules[p].id = id
  /\ op = "event" =>
        /\ r.modules = modules
        /\ r.nextProxy = nextProxy
        /\ DOMAIN r.handlers = DOMAIN handlers
        /\ DOMAIN r.cache \subseteq DOMAIN cache
        /\ DOMAIN cache \ DOMAIN r.cache \subseteq {p}
        /\ \A q \in DOMAIN r.cache : r.cache[q] = cache[q]

\* The call left the registry and the host's module cache as they were.
Still(r) ==
  /\ r.rootFiles = rootFiles /\ r.files = files /\ r.contents = contents
  /\ r.hashes = hashes /\ r.snaphost = snaphost /\ r.modules = modules
  /\ r.handlers = handlers /\ r.cache = cache

Called(r, op, p, event) ==
  [op |-> op, path |-> p, event |-> event, threw |-> r.threw, ret |-> r.ret,
   skip |-> r.skip, out |-> r.out, trans |-> Len(r.built), exec |-> r.exec,
   emit |-> r.emit,
   again |-> op = "emitFile" /\ last.op = "emitFile" /\ last.path = p /\ ~last.threw,
   same |-> /\ Has(compiled, p) /\ Has(disk, p)
            /\ hashOf(compiled[p]) = hashOf(disk[p]),
   wasArmed |-> op = "load" /\ p \in armed,
   wasKnown |-> op \in {"load", "event"} /\ Has(refs, p),
   wasDiscovered |-> op = "load" /\ p \in discovered,
   hadText |-> op = "load" /\ Has(contents, toJsName(p)),
   grew |-> IF op = "load" THEN Count(r.rootFiles, p) - Count(rootFiles, p) ELSE 0,
   kept |-> op = "load" => r.files = files,
   wasFirst |-> op = "load" /\ ~Has(first, p),
   frame |-> Frame(r, op, p),
   bump |-> IF op = "event" /\ event = "changed" /\ Has(files, p) /\ Has(r.files, p)
            THEN r.files[p] - files[p] ELSE 0,
   still |-> Still(r),
   shut |-> op = "resetFiles" =>
              \A k \in DOMAIN fileWatchers : fileWatchers[k].id \in r.closed]

Commit(r, op, p, event) ==
  /\ options' = r.options
  /\ files' = r.files
  /\ rootFiles' = r.rootFiles
  /\ contents' = r.contents
  /\ hashes' = r.hashes
  /\ snaphost' = r.snaphost
  /\ modules' = r.modules
  /\ handlers' = r.handlers
  /\ cache' = r.cache
  /\ fileWatchers' = r.fileWatchers
  /\ closed' = r.closed
  /\ reIndex' = r.reIndex
  /\ nextProxy' = r.nextProxy
  /\ plugins' = r.plugins
  /\ transformers' = r.transformers
  /\ UNCHANGED <<manager, declared, resolves>>
  /\ last' = Called(r, op, p, event)
  /\ compiled' = recordBuilt(IF op = "resetFiles" THEN EmptyMap ELSE compiled, r.built, 1)
  /\ refs' = IF op = "resetFiles" THEN EmptyMap
             ELSE IF op = "load" /\ ~r.threw /\ ~Has(refs, p) THEN Put(refs, p, r.out)
             ELSE refs
  /\ first' = IF op = "load" /\ ~r.threw /\ ~Has(first, p) THEN Put(first, p, r.out)
               ELSE first
  /\ discovered' = IF op = "load" /\ ~r.threw /\ Len(r.built) > 0
                    THEN discovered \cup {p}
                    ELSE discovered
  /\ armed' = IF op = "load" /\ ~r.threw THEN armed \ {p}
              ELSE IF op = "event" /\ event = "changed" /\ ~r.threw /\ Len(r.built) > 0
                      /\ Has(first, p)
                   THEN armed \cup {p}
              ELSE armed

(***************************************************************************)
(* The calls.                                                              *)
(***************************************************************************)
\* Compiler.init(cwd), at boot.  A later call would change nothing:
\* options is set and initFiles returns at once (lines 343, 358-360).
CallInit ==
  /\ ~options
  /\ Commit(init(Cur), "init", << >>, "")
  /\ UNCHANGED <<prod, watch, tree, disk, pending, budget, resets>>

\* A require() of p reaches Module._load, which init replaced by
\* moduleLoadHandler.  Declaration files hold no code to run and
\* transformer files are required by resolveTransformers before init
\* installs the handlers: neither is requested afterwards.
Loadable(p) == ~dtsTest(0, p).match /\ ~transformerTest(p)

Load(p) ==
  /\ options
  /\ Loadable(p)
  /\ Commit(moduleLoadHandler(Cur, p), "load", p, "")
  /\ UNCHANGED <<prod, watch, tree, disk, pending, budget, resets>>

\* The watcher reports its oldest unreported change to watcherListener.
Deliver ==
  /\ options
  /\ pending # << >>
  /\ Commit(watcherListener(Cur, Head(pending)[1], Head(pending)[2]),
            "event", Head(pending)[2], Head(pending)[1])
  /\ pending' = Tail(pending)
  /\ UNCHANGED <<prod, watch, tree, disk, budget, resets>>

\* A direct call of the public static emitFile for a registered path.
EmitFile(p) ==
  /\ options
  /\ Has(files, p)
  /\ Commit(emitFile(Cur, p), "emitFile", p, "")
  /\ UNCHANGED <<prod, watch, tree, disk, pending, budget, resets>>

\* A call of getSnapshot (the language service host asks for a file).
GetSnapshot(p) ==
  /\ options
  /\ ~Has(snaphost, p)
  /\ Commit(getSnapshot(Cur, p), "getSnapshot", p, "")
  /\ UNCHANGED <<prod, watch, tree, disk, pending, budget, resets>>

\* Compiler.resetFiles(): the closed watchers report nothing any more.
ResetFiles ==
  /\ options
  /\ resets < MaxResets
  /\ Commit(resetFiles(Cur), "resetFiles", << >>, "")
  /\ resets' = resets + 1
  /\ pending' = << >>
  /\ UNCHANGED <<prod, watch, tree, disk, budget>>

(***************************************************************************)
(* The developer's changes.  A watcher on the file's top-level directory   *)
(* learns of each; it may report two changes of one file as one.  The      *)
(* watcher stats a file when it reports it, so a file is not deleted       *)
(* while a report that it was added or changed is outstanding.             *)
(***************************************************************************)
Watched(p) ==
  /\ watch
  /\ Has(fileWatchers, topLevel(p))
  /\ p[Len(p)] = ".ts" \/ p \in fileWatchers[topLevel(p)].extra

Notice(event, p) ==
  IF ~Watched(p) THEN pending' = pending
  ELSE \/ pending' = Append(pending, <<event, p>>)
       \/ /\ event = "changed"
          /\ Len(pending) > 0 /\ pending[Len(pending)] = <<event, p>>
          /\ pending' = pending

Env(event, p) ==
  /\ options
  /\ budget > 0
  /\ budget' = budget - 1
  /\ Notice(event, p)
  /\ UNCHANGED <<prod, watch, tree, resets, options, files, rootFiles, contents,
                 hashes, snaphost, modules, handlers, cache, fileWatchers,
                 closed, reIndex, nextProxy, refs, first, discovered, compiled, armed,
                 plugins, transformers, manager, declared, resolves>>
  /\ last' = NoCall

Edit(p, c) ==
  /\ Editable(p)
  /\ Has(disk, p)
  /\ disk' = [disk EXCEPT ![p] = c]
  /\ Env("changed", p)

Create(p, c) ==
  /\ ~Has(disk, p)
  /\ disk' = Put(disk, p, c)
  /\ Env("added", p)

Delete(p) ==
  /\ Editable(p)
  /\ Has(disk, p)
  /\ ~\E i \in 1..Len(pending) : pending[i][2] = p /\ pending[i][1] # "removed"
  /\ disk' = Del(disk, p)
  /\ Env("removed", p)

Next ==
  \/ CallInit
  \/ \E p \in tree : Load(p)
  \/ Deliver
  \/ ResetFiles
  \/ \E p \in tree, c \in Sources : Edit(p, c)
  \/ \E p \in tree, c \in Sources : Create(p, c)
  \/ \E p \in tree : Delete(p)

Spec == Init /\ [][Next]_vars

\* The same with emitFile called from outside as well.
NextEmit == Next \/ \E p \in tree : EmitFile(p)
SpecEmit == Init /\ [][NextEmit]_vars

\* The same with the language service asking for snapshots.
NextSnap == Next \/ \E p \in tree : GetSnapshot(p)
SpecSnap == Init /\ [][NextSnap]_vars

(***************************************************************************)
(* The transformer pipeline on its own: any short list of descriptors,     *)
(* resolved by direct calls of Compiler.resolveTransformers and of         *)
(* TransformerManager.init.                                                *)
(***************************************************************************)
Priorities == {<< >>, <<1>>, <<3>>, <<4>>}
Keys == <<"a", "b", "c", "d">>

Descriptors(n) ==
  {[k \in 1..n |-> Descriptor(Keys[k], ph[k], pr[k])] :
     ph \in [1..n -> Phases], pr \in [1..n -> Priorities]}

InitResolve ==
  /\ prod = FALSE
  /\ watch = FALSE
  /\ tree = {B}
  /\ budget = 0
  /\ Start
  /\ disk = EmptyMap
  /\ plugins \in UNION {Descriptors(n) : n \in 0..MaxPlugins}
  /\ declared = plugins

registry ==
  <<prod, watch, tree, disk, pending, budget, resets,
    options, files, rootFiles, contents, hashes, snaphost, modules,
    handlers, cache, fileWatchers, closed, reIndex, nextProxy,
    refs, first, discovered, compiled, armed, declared>>

CallResolve ==
  /\ resolves < MaxResolves
  /\ plugins' = resolveTransformers(Cur).plugins
  /\ transformers' = resolveTransformers(Cur).transformers
  /\ resolves' = resolves + 1
  /\ last' = [NoCall EXCEPT !.op = "resolveTransformers"]
  /\ UNCHANGED <<registry, manager>>

ManagerInit ==
  /\ resolves < MaxResolves
  /\ plugins' = managerInit(plugins).plugins
  /\ manager' = managerInit(plugins).transformers
  /\ resolves' = resolves + 1
  /\ last' = [NoCall EXCEPT !.op = "TransformerManager.init"]
  /\ UNCHANGED <<registry, transformers>>

NextResolve == CallResolve \/ ManagerInit
SpecResolve == InitResolve /\ [][NextResolve]_vars

(***************************************************************************)
(* Properties.  InProject(p): p is inside the project root and outside     *)
(* the library directory.  Target(ref) is the target slot of an            *)
(* indirection.  Settled(p): no event for p waits to be processed.         *)
(***************************************************************************)
InProject(p) == Includes(p, cwd) /\ ~Includes(p, libraryPath)

Target(ref) == handlers[ref.id]

Settled(p) == \A i \in 1..Len(pending) : pending[i][2] # p

Loaded(p) == last.op = "load" /\ last.path = p /\ ~last.threw

\* C1: in watch mode every load of a path inside the project root and
\* outside the library directory returns an indirection, not the raw
\* exports, and it is the indirection the first load since the latest
\* reset returned, which the module entry still holds.
IndirectionIdentity ==
  \A p \in AllPaths :
    (watch /\ Loaded(p) /\ InProject(p))
      => /\ last.out.kind = "proxy"
         /\ Has(refs, p) /\ last.out = refs[p]
         /\ Has(modules, p) /\ modules[p] = last.out

\* A load of a path loaded before, after an event unloaded it, returns the
\* indirection of the first load.
IndirectionIdentityWitness ==
  \E p \in AllPaths :
    /\ watch /\ Loaded(p) /\ InProject(p)
    /\ last.wasKnown /\ last.wasArmed /\ last.exec # << >>
    /\ last.out.kind = "proxy" /\ last.out = refs[p]

\* The target after a load that executed: the exports of the text that
\* ran, which is the stub when the stored text threw in development mode.
Swapped(p, ref) ==
  /\ last.exec # << >>
  /\ last.exec[1] \in {outputText(compiled[p]), emptyRequire}
  /\ Target(ref) = Exports(last.exec[Len(last.exec)])
  /\ Has(contents, toJsName(p))
  /\ contents[toJsName(p)] = last.exec[Len(last.exec)]
  /\ Len(last.exec) > 1 => Throws(last.exec[1]) /\ last.exec[2] = emptyRequire

\* C2 as stated, whatever happened between the first load and the edit:
\* when a loaded path was recompiled by a 'changed' event, the next load
\* executes the new text and the indirection its first load returned
\* targets the exports of that text.
HotSwapAlways ==
  \A p \in AllPaths :
    (watch /\ Loaded(p) /\ InProject(p) /\ last.wasArmed)
      => Has(first, p) /\ first[p].kind = "proxy" /\ Swapped(p, first[p])

\* C2, amended: the same when no full reset happened since the consumer
\* obtained the indirection.
HotSwap ==
  \A p \in AllPaths :
    (watch /\ Loaded(p) /\ InProject(p) /\ last.wasArmed /\ last.wasKnown)
      => /\ Has(refs, p) /\ refs[p].kind = "proxy" /\ last.out = refs[p]
         /\ Swapped(p, refs[p])

\* A path loaded with its first content, edited to the second, reloaded.
HotSwapWitness ==
  \E p \in AllPaths :
    /\ watch /\ Loaded(p) /\ InProject(p) /\ last.wasArmed /\ last.wasKnown
    /\ last.exec = <<outputText(SrcTwo)>>
    /\ Target(refs[p]) = Exports(outputText(SrcTwo))
    /\ files[p] >= 1

\* C3: once every event for a watched path is processed, a load that
\* executes text executes the translation of the file's current content
\* (in development mode the stub, when that content does not compile or
\* does not run), never that of an earlier content.
ReloadCorrect ==
  \A p \in AllPaths :
    (watch /\ Loaded(p) /\ last.exec # << >> /\ Watched(p) /\ Settled(p))
      => \/ last.exec[1] = outputText(disk[p])
         \/ /\ ~prod
            /\ last.exec[1] = emptyRequire
            /\ diagnostics(disk[p]) # << >> \/ Throws(outputText(disk[p]))

\* Two edits, two processed events, then a load that runs the second text.
ReloadCorrectWitness ==
  \E p \in AllPaths :
    /\ watch /\ Loaded(p) /\ Watched(p) /\ Settled(p)
    /\ files[p] = 2 /\ last.wasArmed
    /\ disk[p] = SrcTwo /\ last.exec = <<outputText(SrcTwo)>>

\* C4: in watch mode, a call of emitFile that directly follows a call on
\* the same path, the file's content unchanged between the two, translates
\* nothing and returns false, whatever the path's version.
EmitIdempotent ==
  \A p \in AllPaths :
    (watch /\ last.op = "emitFile" /\ last.path = p /\ last.again /\ ~last.threw)
      => last.trans = 0 /\ last.ret = FALSE

\* C5: in watch mode a processed 'changed' event emits 'changed' only if
\* the content's hash differs from the hash of the content the path's
\* previous compile read.
ChangedOnlyIfDiffers ==
  \A p \in AllPaths :
    (watch /\ last.op = "event" /\ last.event = "changed" /\ last.path = p
       /\ \E i \in 1..Len(last.emit) : last.emit[i] = <<"changed", p>>)
      => ~last.same

\* C6: outside a full reset a path keeps its entry, its version never
\* decreases and never returns to 0, and every processed 'added' or
\* 'changed' event for a path that has an entry leaves the version
\* strictly greater than it was.
VersionStep ==
  \A p \in AllPaths :
    (resets' = resets /\ Has(files, p))
      => /\ Has(files', p)
         /\ files'[p] >= files[p]
         /\ files[p] > 0 => files'[p] > 0
         /\ (last'.op = "event" /\ last'.path = p /\ ~last'.skip /\ ~last'.threw
               /\ last'.event \in {"added", "changed"})
              => files'[p] > files[p]

MonotonicVersioning == [][VersionStep]_vars

\* C7: in development mode every translation that reported a diagnostic
\* left the stub as the file's compiled text, and the call that made it
\* did not throw; when a watch event made it, emitFile returned true, so
\* the event was emitted.
StubOnError ==
  ~prod =>
    /\ \A p \in DOMAIN compiled :
         diagnostics(compiled[p]) # << >>
           => Has(contents, toJsName(p)) /\ contents[toJsName(p)] = emptyRequire
    /\ \A p \in AllPaths :
         (last.path = p /\ last.trans = 1 /\ diagnostics(compiled[p]) # << >>)
           => /\ ~last.threw
              /\ last.op = "event" => last.emit # << >>
              /\ last.op = "emitFile" => last.ret = TRUE
    /\ last.op = "init" => ~last.threw

\* A processed event for a file that does not translate, in development
\* mode: the stub is stored and the event emitted.
StubOnErrorWitness ==
  \E p \in AllPaths :
    /\ ~prod /\ last.op = "event" /\ last.path = p /\ last.trans = 1
    /\ compiled[p] = SrcBroken /\ disk[p] = SrcBroken
    /\ last.emit # << >> /\ contents[toJsName(p)] = emptyRequire

\* C8: in production mode, when the priming pass of init translates a
\* file that reports a diagnostic, init throws and no compiled text is
\* stored for the file.
FatalOnError ==
  \A p \in AllPaths :
    (prod /\ last.op = "init" /\ last.trans > 0 /\ Has(compiled, p)
       /\ diagnostics(compiled[p]) # << >>)
      => last.threw /\ ~Has(contents, toJsName(p))

\* requireHandler ran for p in the latest call.
Ran(p) == last.op = "load" /\ last.path = p /\ last.exec # << >>

\* What requireHandler does for a path without compiled text, and for one
\* with it.
LazyCall(p) ==
  Ran(p) =>
    IF ~last.hadText
    THEN /\ last.grew = 1
         /\ Has(files, p) /\ files[p] = 0
         /\ last.trans = 1
         /\ last.exec[1] # Undefined
         /\ Has(contents, toJsName(p))
    ELSE /\ last.grew = 0
         /\ last.kept
         /\ last.trans = 0
         /\ last.exec[1] # Undefined

\* C9 as stated: requireHandler on a path without compiled text adds it
\* to the root set at version 0, translates it once and runs a defined
\* text; a path so discovered has compiled text at every later load, and
\* is then neither added to the root set nor given a version again.
LazyDiscoveryAlways ==
  \A p \in AllPaths :
    /\ LazyCall(p)
    /\ (Ran(p) /\ last.wasDiscovered) => last.hadText

\* C9, amended: the same for the later loads up to a full reset: every
\* path translated since the latest reset has compiled text.
LazyDiscovery ==
  /\ \A p \in AllPaths : LazyCall(p)
  /\ \A p \in DOMAIN compiled : Has(contents, toJsName(p))

\* A path the scan did not find was loaded and compiled by the load;
\* after an event unloaded it, it is loaded again.
LazyDiscoveryWitness ==
  \E p \in AllPaths :
    /\ Ran(p) /\ ~last.threw /\ last.hadText /\ last.wasDiscovered
    /\ last.trans = 0 /\ last.grew = 0
    /\ resets = 0

Emitted(event, p) ==
  Cardinality({i \in 1..Len(last.emit) : last.emit[i] = <<event, p>>})

\* C11: 'required-after' fires exactly once per path: the first load of a
\* path whose compiled text runs to completion emits it once, whether the
\* priming pass or the load compiled the path, and no load of a path that
\* an earlier load already completed emits it.
RequiredAfterOnce ==
  \A p \in AllPaths :
    (Ran(p) /\ ~last.threw)
      => /\ (last.wasFirst /\ Len(last.exec) = 1) => Emitted("required-after", p) = 1
         /\ ~last.wasFirst => Emitted("required-after", p) = 0

\* The latest call was a load of p whose first executed text threw.
Failed(p) ==
  last.op = "load" /\ last.path = p /\ last.exec # << >> /\ Throws(last.exec[1])

\* C12: no load executes more than two texts.  When the compiled text of
\* a path throws, development mode stores the stub as the path's compiled
\* text, runs it once and the load returns normally; production mode runs
\* nothing more, leaves the compiled text as it was, evicts the module
\* record and the requester gets the error.
ExecutionFailurePolicy ==
  \A p \in AllPaths :
    /\ (last.op = "load" /\ last.path = p) => Len(last.exec) <= 2
    /\ (Ran(p) /\ ~Throws(last.exec[1])) => Len(last.exec) = 1 /\ ~last.threw
    /\ (Failed(p) /\ ~prod)
         => /\ last.exec = <<last.exec[1], emptyRequire>>
            /\ ~last.threw
            /\ Has(contents, toJsName(p)) /\ contents[toJsName(p)] = emptyRequire
            /\ Has(cache, p) /\ cache[p] = Exports(emptyRequire)
    /\ (Failed(p) /\ prod)
         => /\ Len(last.exec) = 1
            /\ last.threw
            /\ Has(contents, toJsName(p)) /\ contents[toJsName(p)] = last.exec[1]
            /\ ~Has(cache, p)

\* A path whose text throws was loaded in development mode after a
\* processed event compiled that text.
ExecutionFailurePolicyWitness ==
  \E p \in AllPaths :
    /\ Failed(p) /\ ~prod /\ ~last.threw
    /\ last.exec = <<outputText(SrcThrow), emptyRequire>>
    /\ last.hadText /\ files[p] >= 1
    /\ contents[toJsName(p)] = emptyRequire

\* C13: processing a watch event executes nothing; it makes and drops no
\* module entry, gives no indirection a target other than the empty one,
\* and touches the host's module cache only by evicting the entry of the
\* event's path.  When the event recompiled or removed the path, the cache
\* entry is gone and the target of the path's indirection is empty; only
\* a load of a path gives its indirection a target.
NeverAutomatic ==
  /\ last.frame
  /\ \A p \in AllPaths :
       (last.op = "event" /\ last.path = p)
         => /\ last.exec = << >>
            /\ (~last.skip /\ ~last.threw /\ (last.event = "removed" \/ last.trans = 1))
                 => /\ ~Has(cache, p)
                    /\ Has(modules, p) => Target(modules[p]) = NullTarget

\* A 'changed' event recompiled a loaded path: nothing ran, the entry is
\* evicted and the indirection handed out has the empty target.
NeverAutomaticWitness ==
  \E p \in AllPaths :
    /\ watch /\ last.op = "event" /\ last.event = "changed" /\ last.path = p
    /\ last.wasKnown /\ last.trans = 1 /\ last.exec = << >>
    /\ ~Has(cache, p) /\ Target(refs[p]) = NullTarget
    /\ contents[toJsName(p)] = outputText(SrcTwo)

\* C14: a processed 'changed' event for a path that has an entry, in
\* which emitFile found the content's hash equal to the recorded one and
\* returned false, leaves the path's version as it was.
VersionOnlyOnChange ==
  \A p \in AllPaths :
    (last.op = "event" /\ last.event = "changed" /\ last.path = p
       /\ ~last.skip /\ ~last.threw /\ last.ret = FALSE /\ last.trans = 0
       /\ Has(files, p))
      => last.bump = 0

\* The patterns of invalidWorkingSetFiles, as patterns: a declaration
\* file, a transformer file, a file of a dev-only library.
Excluded(p) == dtsTest(0, p).match \/ transformerTest(p) \/ devDependencyTest(p)

\* C15: every watch event for a path that matches an excluded pattern is
\* discarded: the root set, versions, compiled texts, hashes, snapshots,
\* module entries, targets and the host's module cache stay as they were,
\* nothing is translated and no public event is emitted.
ExcludedDiscarded ==
  \A p \in AllPaths :
    (last.op = "event" /\ last.path = p /\ Excluded(p))
      => /\ last.skip
         /\ last.still
         /\ last.trans = 0
         /\ last.emit = << >>

\* The files a scan of the two directories finds that match no excluded
\* pattern.
FreshScan ==
  {p \in DOMAIN disk : (inLibraryScan(p) \/ inSourceScan(p)) /\ ~Excluded(p)}

\* C16: when resetFiles has returned, every watcher that existed is
\* closed; the root set, the versions, the compiled texts and (in watch
\* mode) the hashes hold exactly the files of a fresh scan, every one at
\* version 0 and translated during the reset from its content on disk;
\* no snapshot and no module entry is left; in watch mode there is a new,
\* open watcher set.
FullReset ==
  last.op = "resetFiles" =>
    /\ ~last.threw
    /\ last.shut
    /\ rootFiles.defined
    /\ {rootFiles.items[i] : i \in 1..Len(rootFiles.items)} = FreshScan
    /\ DOMAIN files = FreshScan
    /\ \A p \in DOMAIN files : files[p] = 0
    /\ DOMAIN compiled = FreshScan /\ last.trans = Cardinality(FreshScan)
    /\ DOMAIN contents = {toJsName(p) : p \in FreshScan}
    /\ \A p \in FreshScan : contents[toJsName(p)] = outputOf(prod, disk[p], p)
    /\ DOMAIN hashes = IF watch THEN FreshScan ELSE {}
    /\ \A p \in DOMAIN hashes : hashes[p] = hashOf(disk[p])
    /\ snaphost = EmptyMap
    /\ modules = EmptyMap
    /\ IF watch
       THEN /\ DOMAIN fileWatchers = {"src"}
            /\ \A k \in DOMAIN fileWatchers :
                 fileWatchers[k].id \notin closed /\ fileWatchers[k].extra = {}
       ELSE fileWatchers = EmptyMap

\* C17 as stated: in watch mode every load of a path inside the project
\* returns the indirection the path's first load ever returned, resets
\* included, and that indirection targets the module the load produced.
IdentityPermanent ==
  \A p \in AllPaths :
    (watch /\ Loaded(p) /\ InProject(p))
      => /\ Has(first, p) /\ last.out = first[p]
         /\ Has(cache, p) /\ Target(first[p]) = cache[p]

\* C17, amended: the identity is permanent between full resets.  In every
\* state the module entry of a path loaded since the latest reset holds
\* the indirection that load returned, no two paths share one, a load
\* returns it and leaves it targeting the module it produced; the
\* indirection of a path differs from the first ever handed out only
\* after a reset.
IdentityUntilReset ==
  \A p \in AllPaths :
    (watch /\ InProject(p) /\ Has(refs, p))
      => /\ refs[p].kind = "proxy"
         /\ Has(modules, p) /\ modules[p] = refs[p]
         /\ \A q \in DOMAIN refs : q # p => refs[q] # refs[p]
         /\ Loaded(p) => /\ last.out = refs[p]
                          /\ Has(cache, p) /\ Target(refs[p]) = cache[p]
         /\ Has(first, p) /\ (first[p] # refs[p] => resets > 0)

\* After a reset a path loaded before it is loaded twice: the second load
\* returns the indirection of the first load after the reset, which is
\* not the one handed out before the reset.
IdentityUntilResetWitness ==
  \E p \in AllPaths :
    /\ watch /\ Loaded(p) /\ InProject(p) /\ last.wasKnown
    /\ resets > 0 /\ first[p] # refs[p]
    /\ last.out = refs[p] /\ Target(refs[p]) = cache[p]

\* The priority a descriptor has once resolved: its own, or 2 plus its
\* rank among the descriptors discovered without one.
Priority(i) ==
  IF declared[i].priority = << >>
  THEN 2 + Cardinality({j \in 1..i : declared[j].priority = << >>})
  ELSE declared[i].priority[1]

Index(t) == CHOOSE i \in 1..Len(declared) : declared[i].transformer = t

\* list holds the transformers of the phase, each once, by ascending
\* priority and, at equal priority, in the order of discovery.
InOrder(list, phase) ==
  /\ Len(list) = Cardinality({i \in 1..Len(declared) : declared[i].phase = phase})
  /\ {list[k] : k \in 1..Len(list)} =
       {declared[i].transformer : i \in {j \in 1..Len(declared) : declared[j].phase = phase}}
  /\ \A k \in 1..(Len(list) - 1) :
       \/ Priority(Index(list[k])) < Priority(Index(list[k + 1]))
       \/ /\ Priority(Index(list[k])) = Priority(Index(list[k + 1]))
          /\ Index(list[k]) < Index(list[k + 1])

Resolved(t) ==
  /\ DOMAIN t = phasesOf(declared)
  /\ \A phase \in DOMAIN t : InOrder(t[phase], phase)

Assigned ==
  /\ Len(plugins) = Len(declared)
  /\ \A i \in 1..Len(plugins) :
       /\ plugins[i].priority = <<Priority(i)>>
       /\ plugins[i].phase = declared[i].phase
       /\ plugins[i].transformer = declared[i].transformer

\* C18: after every resolution each phase's list holds exactly the
\* transformers of the phase's descriptors by ascending priority, equal
\* priorities in discovery order; a descriptor discovered without a
\* priority has 3, 4, ... in discovery order; and whatever was resolved
\* before, by either method, the lists are these same lists.
PipelineOrdered ==
  /\ (options \/ last.op = "resolveTransformers") => Resolved(transformers) /\ Assigned
  /\ last.op = "TransformerManager.init" => Resolved(manager) /\ Assigned
  /\ transformers = EmptyMap \/ Resolved(transformers)
  /\ manager = EmptyMap \/ Resolved(manager)

\* Three descriptors of one phase: none, 3 and 1 as priorities.  The
\* second resolution gives the order c, a, b.
PipelineOrderedWitness ==
  /\ resolves = 2 /\ last.op = "resolveTransformers"
  /\ Len(declared) = 3
  /\ declared[1].priority = << >> /\ declared[2].priority = <<3>>
  /\ declared[3].priority = <<1>>
  /\ transformers = [phase \in {"before"} |-> <<"c", "a", "b">>]

\* emitFile ran for p in the latest call, found the hash equal and
\* returned false without translating.
ShortCircuited(p) ==
  /\ last.path = p /\ ~last.skip /\ ~last.threw
  /\ \/ last.op = "emitFile"
     \/ last.op = "event" /\ last.event \in {"added", "changed"}
  /\ last.trans = 0 /\ last.ret = FALSE

\* C19: in every reachable state a path with a recorded hash has compiled
\* text, and so has a path for which emitFile short-circuited.
HashHasText ==
  /\ \A p \in DOMAIN hashes : Has(contents, toJsName(p))
  /\ \A p \in AllPaths : ShortCircuited(p) => Has(contents, toJsName(p))

\* A 'changed' event for a primed path whose content is as compiled,
\* processed after a reset: emitFile short-circuits, the text is there.
HashHasTextWitness ==
  \E p \in AllPaths :
    /\ watch /\ ShortCircuited(p) /\ last.op = "event" /\ resets > 0
    /\ Has(hashes, p) /\ hashes[p] = hashOf(disk[p])
    /\ contents[toJsName(p)] = outputOf(prod, disk[p], p)

\* C20: in watch mode, in every state where no watch event waits to be
\* processed, an executed module the host's module cache holds for a path
\* was executed from the compiled text now stored for the path.
CacheIsCurrent ==
  \A p \in AllPaths :
    (watch /\ pending = << >> /\ Has(cache, p) /\ cache[p].kind = "exports")
      => /\ Has(contents, toJsName(p))
         /\ cache[p] = Exports(contents[toJsName(p)])
====
